---- MODULE Spec2Model ----
(***************************************************************************)
(* TheFootballManager (src/main.py): the three engines TransferMarket,     *)
(* MatchEngine and Analytics working on one shared league dictionary       *)
(* data = {'teams': [...], 'players': [...]}.                              *)
(*                                                                         *)
(* The program is single threaded: every call runs to completion before    *)
(* the next one starts.  simulate_match is split into steps because its    *)
(* assist re-draw loop (lines 126-127 and 141-142) need not terminate; all *)
(* other calls are one step each.  A re-draw that picks the scorer again   *)
(* leaves every variable as it was, so a loop that spins forever shows as  *)
(* a behaviour that stutters in the re-draw position.                      *)
(*                                                                         *)
(* The variable last holds the outcome of the latest call (what the caller *)
(* prints or catches); the caller then makes its next call.  The model     *)
(* lets the session go on after every failure, as a caller that catches    *)
(* the error does.                                                         *)
(*                                                                         *)
(* Numbers.  calculate_player_value works on Python floats.  The model     *)
(* computes the same sum in exact arithmetic, in ninths of a currency      *)
(* unit, and applies int() (truncation toward zero) to it.  The player     *)
(* cards below use ages 16, 26, 36 and 66, whose age factors 0.5, 1.0,     *)
(* 0.5 and -1.0 are exact in binary floating point, so that the float      *)
(* result and the exact result coincide on every value the model reaches.  *)
(***************************************************************************)
EXTENDS Integers, Sequences, FiniteSets, TLC

VARIABLES
    players,            \* data['players']: ordered player records
    teams,              \* data['teams']: ordered team records
    transfer_history,   \* TransferMarket.transfer_history
    match_history,      \* MatchEngine.match_history
    pc,                 \* position inside simulate_match, "idle" between calls
    home_team,          \* generate_match_events: home_team (home['name'])
    away_team,          \* generate_match_events: away_team (away['name'])
    home_goals,         \* simulate_match: home_goals
    away_goals,         \* simulate_match: away_goals
    events,             \* generate_match_events: the local list events
    goal_no,            \* goals already attributed by the running for loop
    minute,             \* minute drawn for the goal whose assist is re-drawn
    scorer,             \* index of the scorer of that goal (0 when none)
    last                \* the latest call: its name, arguments and outcome

vars == <<players, teams, transfer_history, match_history, pc, home_team,
          away_team, home_goals, away_goals, events, goal_no, minute,
          scorer, last>>

repo == <<players, teams, transfer_history, match_history>>

locals == <<home_team, away_team, home_goals, away_goals, events, goal_no,
            minute, scorer>>

----------------------------------------------------------------------------
(* Bounds of the model *)

\* calls of one session that change the repository: the transfers that
\* succeed and the matches that are played
MaxCalls == 2

\* goals drawn in one session, over all its matches (the code: any natural
\* number for each side of each match)
MaxGoals == 2

\* minutes are drawn from 1..MaxMinute (the code: 1..90)
MaxMinute == 2

----------------------------------------------------------------------------
(* The league the session starts from (what load_data returns) *)

Today == "today"

Card(n, a, r, pos, m, s) ==
    [name |-> n, age |-> a, rating |-> r, position |-> pos,
     stats |-> [goals |-> 0, assists |-> 0, minutes_played |-> m,
                shots_on_target |-> s]]

Ann  == Card("ann", 26, 80, "FW", 90, 4)
Ann2 == Card("ann", 66, 70, "GK", 100, 0)
Bob  == Card("bob", 36, 90, "MF", 0, 0)
Cy   == Card("cy", 16, 60, "DF", 45, 2)

WithTeam(card, team_name) ==
    [name |-> card.name, team |-> team_name, age |-> card.age,
     rating |-> card.rating, position |-> card.position,
     stats |-> card.stats]

\* the player lists data.json may hold: a full side and an empty one, two
\* sides of one player, two records of one name on one side, and a name
\* whose first record plays for another side
Leagues ==
    { << WithTeam(Ann, "Red"), WithTeam(Bob, "Red") >>,
      << WithTeam(Bob, "Red"), WithTeam(Cy, "Blue") >>,
      << WithTeam(Ann, "Red"), WithTeam(Ann2, "Red") >>,
      << WithTeam(Ann, "Blue"), WithTeam(Ann2, "Red"), WithTeam(Bob, "Red") >> }

InitTeams == << [name |-> "Red", league_position |-> 1, points |-> 10],
                [name |-> "Blue", league_position |-> 2, points |-> 7] >>

\* what the user types at the prompts
PlayerInputs == { "ANN", "bob", "zed" }
TeamInputs   == { "red", "Blue", "Gold" }

----------------------------------------------------------------------------
(* str.lower() on the strings of the model *)

lower(s) ==
    CASE s = "ANN" -> "ann"
      [] s = "Red" -> "red"
      [] s = "Blue" -> "blue"
      [] s = "Gold" -> "gold"
      [] OTHER -> s

(* next((x for x in xs if cond), None): the index of the first of the
   matching positions hits, or 0 for None *)
First(hits) ==
    IF hits = {} THEN 0
    ELSE CHOOSE i \in hits : \A j \in hits : i <= j

FindPlayerCI(ps, player_name) ==
    First({ i \in 1..Len(ps) : lower(ps[i].name) = lower(player_name) })

FindTeamCI(ts, team_name) ==
    First({ i \in 1..Len(ts) : lower(ts[i].name) = lower(team_name) })

FindPlayerExact(ps, player_name) ==
    First({ i \in 1..Len(ps) : ps[i].name = player_name })

(* [p for p in data['players'] if p['team'] == team_name], as indices *)
RECURSIVE RosterFrom(_, _, _)
RosterFrom(ps, team_name, i) ==
    IF i > Len(ps) THEN << >>
    ELSE IF ps[i].team = team_name
         THEN <<i>> \o RosterFrom(ps, team_name, i + 1)
         ELSE RosterFrom(ps, team_name, i + 1)

Roster(ps, team_name) == RosterFrom(ps, team_name, 1)

Range(f) == { f[i] : i \in DOMAIN f }

Abs(x) == IF x < 0 THEN -x ELSE x

\* sum(...) over a sequence of numbers
RECURSIVE Sum(_)
Sum(xs) == IF xs = << >> THEN 0 ELSE Head(xs) + Sum(Tail(xs))

----------------------------------------------------------------------------
(* TransferMarket *)

\* int(x) for the rational x = num/den, den > 0: truncation toward zero
PyInt(num, den) ==
    IF num >= 0 THEN num \div den ELSE -((-num) \div den)

\* the float sum base_value*age_factor + performance_factor, in ninths:
\*   base_value*age_factor = rating*2000000*(20 - |26-age|)/20
\*   performance_factor    = goals*500000 + assists*300000
\*                           + minutes_played*100000/90
ValueNinths(player) ==
    LET base_age == player.rating * 100000 * (20 - Abs(26 - player.age))
        stats    == player.stats
    IN  9 * (base_age + stats.goals * 500000 + stats.assists * 300000)
        + stats.minutes_played * 10000

calculate_player_value(player) == PyInt(ValueNinths(player), 9)

Outcome(op, args, status, value) ==
    [op |-> op, args |-> args, status |-> status, value |-> value]

\* main() is at a prompt: no call is running, the last outcome was printed
Menu == Outcome("menu", "", "ok", "")

AtMenu == pc = "idle" /\ last.op = "menu"

\* the transfers and matches of the session so far
CallsSoFar == Len(transfer_history) + Len(match_history)

TransferPlayer_EarlyAssign(player_name, new_team) ==
    /\ AtMenu
    /\ LET pi   == FindPlayerCI(players, player_name)
           ti   == FindTeamCI(teams, new_team)
           args == [player_name |-> player_name, new_team |-> new_team]
       IN  IF pi = 0
           THEN /\ last' = Outcome("transfer_player", args, "NotFound", "player")
                /\ UNCHANGED <<players, transfer_history>>
           ELSE IF ti = 0
           THEN /\ players' = [players EXCEPT ![pi].team = new_team]
                /\ last' = Outcome("transfer_player", args, "NotFound", "team")
                /\ UNCHANGED transfer_history
           ELSE /\ CallsSoFar < MaxCalls
                /\ LET moved  == [players[pi] EXCEPT !.team = new_team]
                       record == [player |-> moved.name,
                                  from_team |-> players[pi].team,
                                  to_team |-> new_team,
                                  fee |-> calculate_player_value(moved),
                                  date |-> Today]
                   IN  /\ players' = [players EXCEPT ![pi] = moved]
                       /\ transfer_history' = Append(transfer_history, record)
                       /\ last' = Outcome("transfer_player", args, "ok", record)
    /\ UNCHANGED <<teams, match_history, pc, locals>>

TransferPlayer(player_name, new_team) ==
    /\ AtMenu
    /\ LET pi   == FindPlayerCI(players, player_name)
           ti   == FindTeamCI(teams, new_team)
           args == [player_name |-> player_name, new_team |-> new_team]
       IN  IF pi = 0
           THEN /\ last' = Outcome("transfer_player", args, "NotFound", "player")
                /\ UNCHANGED <<players, transfer_history>>
           ELSE IF ti = 0
           THEN /\ last' = Outcome("transfer_player", args, "NotFound", "team")
                /\ UNCHANGED <<players, transfer_history>>
           ELSE /\ CallsSoFar < MaxCalls
                /\ LET moved  == [players[pi] EXCEPT !.team = new_team]
                       record == [player |-> moved.name,
                                  from_team |-> players[pi].team,
                                  to_team |-> new_team,
                                  fee |-> calculate_player_value(moved),
                                  date |-> Today]
                   IN  /\ players' = [players EXCEPT ![pi] = moved]
                       /\ transfer_history' = Append(transfer_history, record)
                       /\ last' = Outcome("transfer_player", args, "ok", record)
    /\ UNCHANGED <<teams, match_history, pc, locals>>

\* menu 2.1: calculate_player_value on a player record of the repository
CalculatePlayerValue(i) ==
    /\ AtMenu
    /\ last' = Outcome("calculate_player_value", players[i], "ok",
                       calculate_player_value(players[i]))
    /\ UNCHANGED <<repo, pc, locals>>

----------------------------------------------------------------------------
(* MatchEngine *)

\* total_rating / len(team_players) as the pair <<total_rating, len>>
calculate_team_strength(ps, team_name) ==
    LET team_players == Roster(ps, team_name)
    IN  IF team_players = << >>
        THEN [status |-> "NoPlayers", value |-> <<0, 0>>]
        ELSE [status |-> "ok",
              value |-> <<Sum([k \in 1..Len(team_players) |->
                                  ps[team_players[k]].rating]),
                          Len(team_players)>>]

Event(m, team_name, s, a) ==
    [minute |-> m, type |-> "goal", team |-> team_name,
     scorer |-> players[s].name, assist |-> players[a].name]

\* assist == scorer (lines 126, 141): equality of the two player dicts
AssistIsScorer_Never(a, s) == FALSE

AssistIsScorer(a, s) == players[a] = players[s]

\* list.sort(key=minute): a stable sort, here by insertion from the left
RECURSIVE InsertByMinute_Unstable(_, _)
InsertByMinute_Unstable(sorted, e) ==
    IF sorted = << >> THEN <<e>>
    ELSE IF Head(sorted).minute < e.minute
         THEN <<Head(sorted)>> \o InsertByMinute_Unstable(Tail(sorted), e)
         ELSE <<e>> \o sorted

RECURSIVE InsertByMinute(_, _)
InsertByMinute(sorted, e) ==
    IF sorted = << >> THEN <<e>>
    ELSE IF Head(sorted).minute <= e.minute
         THEN <<Head(sorted)>> \o InsertByMinute(Tail(sorted), e)
         ELSE <<e>> \o sorted

RECURSIVE SortFrom(_, _)
SortFrom(sorted, rest) ==
    IF rest = << >> THEN sorted
    ELSE SortFrom(InsertByMinute(sorted, Head(rest)), Tail(rest))

SortByMinute(evs) == SortFrom(<< >>, evs)

\* update_stats on the events of a match result, applied to the players ps
RECURSIVE update_stats_NoAssist(_, _)
update_stats_NoAssist(ps, evs) ==
    IF evs = << >> THEN ps
    ELSE LET e  == Head(evs)
             si == FindPlayerExact(ps, e.scorer)
             p1 == [ps EXCEPT ![si].stats.goals = @ + 1]
         IN  update_stats_NoAssist(IF e.type = "goal" THEN p1 ELSE ps, Tail(evs))

RECURSIVE update_stats(_, _)
update_stats(ps, evs) ==
    IF evs = << >> THEN ps
    ELSE LET e  == Head(evs)
             si == FindPlayerExact(ps, e.scorer)
             p1 == [ps EXCEPT ![si].stats.goals = @ + 1]
             ai == FindPlayerExact(p1, e.assist)
             p2 == [p1 EXCEPT ![ai].stats.assists = @ + 1]
         IN  update_stats(IF e.type = "goal" THEN p2 ELSE ps, Tail(evs))

\* the goals of the matches played so far
GoalsSoFar ==
    Sum([k \in 1..Len(match_history) |->
            match_history[k].home_goals + match_history[k].away_goals])

ResetLocals ==
    /\ home_team' = ""
    /\ away_team' = ""
    /\ home_goals' = 0
    /\ away_goals' = 0
    /\ events' = << >>
    /\ goal_no' = 0
    /\ minute' = 0
    /\ scorer' = 0

\* simulate_match up to the call of generate_match_events (lines 82-99, 117)
SimulateMatch_EarlyCommit(home_in, away_in) ==
    /\ AtMenu
    /\ LET hi   == FindTeamCI(teams, home_in)
           ai   == FindTeamCI(teams, away_in)
           args == [home_team |-> home_in, away_team |-> away_in]
       IN  IF hi = 0 \/ ai = 0
           THEN /\ last' = Outcome("simulate_match", args, "NotFound", "team")
                /\ UNCHANGED <<pc, locals, match_history>>
           ELSE IF calculate_team_strength(players, teams[hi].name).status # "ok"
           THEN /\ last' = Outcome("simulate_match", args, "NoPlayers", "home")
                /\ UNCHANGED <<pc, locals, match_history>>
           ELSE IF calculate_team_strength(players, teams[ai].name).status # "ok"
           THEN /\ last' = Outcome("simulate_match", args, "NoPlayers", "away")
                /\ match_history' =
                       Append(match_history,
                              [home_team |-> teams[hi].name,
                               away_team |-> teams[ai].name,
                               home_goals |-> 0, away_goals |-> 0,
                               events |-> << >>, date |-> Today])
                /\ UNCHANGED <<pc, locals>>
           ELSE /\ CallsSoFar < MaxCalls
                /\ \E hg \in 0..MaxGoals, ag \in 0..MaxGoals :
                      /\ hg + ag + GoalsSoFar <= MaxGoals
                      /\ home_goals' = hg
                      /\ away_goals' = ag
                /\ pc' = "home_goals"
                /\ home_team' = teams[hi].name
                /\ away_team' = teams[ai].name
                /\ events' = << >>
                /\ goal_no' = 0
                /\ last' = Outcome("simulate_match", args, "running", "events")
                /\ UNCHANGED <<minute, scorer, match_history>>
    /\ UNCHANGED <<players, teams, transfer_history>>

SimulateMatch(home_in, away_in) ==
    /\ AtMenu
    /\ LET hi   == FindTeamCI(teams, home_in)
           ai   == FindTeamCI(teams, away_in)
           args == [home_team |-> home_in, away_team |-> away_in]
       IN  IF hi = 0 \/ ai = 0
           THEN /\ last' = Outcome("simulate_match", args, "NotFound", "team")
                /\ UNCHANGED <<pc, locals>>
           ELSE IF calculate_team_strength(players, teams[hi].name).status # "ok"
           THEN /\ last' = Outcome("simulate_match", args, "NoPlayers", "home")
                /\ UNCHANGED <<pc, locals>>
           ELSE IF calculate_team_strength(players, teams[ai].name).status # "ok"
           THEN /\ last' = Outcome("simulate_match", args, "NoPlayers", "away")
                /\ UNCHANGED <<pc, locals>>
           ELSE /\ CallsSoFar < MaxCalls
                /\ \E hg \in 0..MaxGoals, ag \in 0..MaxGoals :
                      /\ hg + ag + GoalsSoFar <= MaxGoals
                      /\ home_goals' = hg
                      /\ away_goals' = ag
                /\ pc' = "home_goals"
                /\ home_team' = teams[hi].name
                /\ away_team' = teams[ai].name
                /\ events' = << >>
                /\ goal_no' = 0
                /\ last' = Outcome("simulate_match", args, "running", "events")
                /\ UNCHANGED <<minute, scorer>>
    /\ UNCHANGED repo

\* one pass of a for loop of generate_match_events up to the while test
DrawGoal(team_name, n_goals, loop_pc, redraw_pc) ==
    /\ pc = loop_pc
    /\ goal_no < n_goals
    /\ LET side == Range(Roster(players, team_name))
       IN  \E m \in 1..MaxMinute, s \in side, a \in side :
              IF AssistIsScorer(a, s)
              THEN /\ pc' = redraw_pc
                   /\ minute' = m
                   /\ scorer' = s
                   /\ UNCHANGED <<events, goal_no>>
              ELSE /\ events' = Append(events, Event(m, team_name, s, a))
                   /\ goal_no' = goal_no + 1
                   /\ UNCHANGED <<pc, minute, scorer>>
    /\ UNCHANGED <<repo, home_team, away_team, home_goals, away_goals, last>>

\* one pass of the while loop: assist = random.choice(...), then the test
RedrawAssist(team_name, loop_pc, redraw_pc) ==
    /\ pc = redraw_pc
    /\ LET side == Range(Roster(players, team_name))
       IN  \E a \in side :
              IF AssistIsScorer(a, scorer)
              THEN UNCHANGED <<pc, minute, scorer, events, goal_no>>
              ELSE /\ events' = Append(events, Event(minute, team_name, scorer, a))
                   /\ goal_no' = goal_no + 1
                   /\ pc' = loop_pc
                   /\ minute' = 0
                   /\ scorer' = 0
    /\ UNCHANGED <<repo, home_team, away_team, home_goals, away_goals, last>>

HomeGoal == DrawGoal(home_team, home_goals, "home_goals", "home_assist")

HomeAssist == RedrawAssist(home_team, "home_goals", "home_assist")

\* the first for loop is exhausted, the second one starts
HomeDone ==
    /\ pc = "home_goals"
    /\ goal_no = home_goals
    /\ pc' = "away_goals"
    /\ goal_no' = 0
    /\ UNCHANGED <<repo, home_team, away_team, home_goals, away_goals, events,
                   minute, scorer, last>>

AwayGoal == DrawGoal(away_team, away_goals, "away_goals", "away_assist")

AwayAssist == RedrawAssist(away_team, "away_goals", "away_assist")

\* events.sort, return; then lines 101-113 of simulate_match
FinishMatch ==
    /\ pc = "away_goals"
    /\ goal_no = away_goals
    /\ LET sorted == SortByMinute(events)
           match_result == [home_team |-> home_team, away_team |-> away_team,
                            home_goals |-> home_goals,
                            away_goals |-> away_goals,
                            events |-> sorted, date |-> Today]
       IN  /\ match_history' = Append(match_history, match_result)
           /\ players' = update_stats(players, match_result.events)
           /\ last' = Outcome("simulate_match", last.args, "ok", match_result)
    /\ pc' = "idle"
    /\ ResetLocals
    /\ UNCHANGED <<teams, transfer_history>>

----------------------------------------------------------------------------
(* Analytics *)

\* a quotient num/den of the floats of the code, kept as the pair <<num, den>>
Ratio(num, den) == <<num, den>>

CalculatePlayerEfficiency(player_name) ==
    /\ AtMenu
    /\ LET pi == FindPlayerCI(players, player_name)
       IN  IF pi = 0
           THEN last' = Outcome("calculate_player_efficiency", player_name,
                                "NotFound", "player")
           ELSE LET stats   == players[pi].stats
                    minutes == stats.minutes_played
                IN  IF minutes = 0
                    THEN last' = Outcome("calculate_player_efficiency",
                                         player_name, "ZeroDivisionError",
                                         "minutes_played")
                    ELSE last' = Outcome("calculate_player_efficiency",
                             player_name, "ok",
                             [goals_per_90 |-> Ratio(stats.goals * 90, minutes),
                              assists_per_90 |->
                                  Ratio(stats.assists * 90, minutes),
                              goal_contributions |->
                                  stats.goals + stats.assists,
                              shots_conversion |->
                                  IF stats.shots_on_target > 0
                                  THEN Ratio(stats.goals * 100,
                                             stats.shots_on_target)
                                  ELSE Ratio(0, 1)])
    /\ UNCHANGED <<repo, pc, locals>>

\* max(players, key=...): the scan keeps the first of several maxima
RECURSIVE MaxScan(_, _, _, _)
MaxScan(ps, best, rest, key) ==
    IF rest = << >> THEN best
    ELSE IF ps[Head(rest)].stats[key] > ps[best].stats[key]
         THEN MaxScan(ps, Head(rest), Tail(rest), key)
         ELSE MaxScan(ps, best, Tail(rest), key)

MaxBy(ps, roster, key) == MaxScan(ps, Head(roster), Tail(roster), key)

GenerateTeamReport_Writes(team_name) ==
    /\ AtMenu
    /\ LET ti == FindTeamCI(teams, team_name)
       IN  /\ ti # 0
           /\ Roster(players, teams[ti].name) # << >>
           /\ LET i == Head(Roster(players, teams[ti].name))
              IN  players' = [players EXCEPT ![i].stats.goals = 0]
           /\ last' = Outcome("generate_team_report", team_name, "ok", "report")
    /\ UNCHANGED <<teams, transfer_history, match_history, pc, locals>>

GenerateTeamReport(team_name) ==
    /\ AtMenu
    /\ LET ti == FindTeamCI(teams, team_name)
       IN  IF ti = 0
           THEN last' = Outcome("generate_team_report", team_name,
                                "NotFound", "team")
           ELSE LET team   == teams[ti]
                    roster == Roster(players, team.name)
                IN  IF roster = << >>
                    THEN \* line 202: max() of an empty list raises ValueError
                         last' = Outcome("generate_team_report", team_name,
                                         "MaxOfEmpty", "top_scorer")
                    ELSE last' = Outcome("generate_team_report", team_name,
                             "ok",
                             [team_name |-> team.name,
                              league_position |-> team.league_position,
                              points |-> team.points,
                              top_scorer |->
                                  players[MaxBy(players, roster, "goals")],
                              top_assister |->
                                  players[MaxBy(players, roster, "assists")],
                              squad_age_average |->
                                  Ratio(Sum([k \in 1..Len(roster) |->
                                                players[roster[k]].age]),
                                        Len(roster)),
                              squad_rating_average |->
                                  Ratio(Sum([k \in 1..Len(roster) |->
                                                players[roster[k]].rating]),
                                        Len(roster))])
    /\ UNCHANGED <<repo, pc, locals>>

----------------------------------------------------------------------------
(* The session *)

Init ==
    /\ players \in Leagues
    /\ teams = InitTeams
    /\ transfer_history = << >>
    /\ match_history = << >>
    /\ pc = "idle"
    /\ home_team = ""
    /\ away_team = ""
    /\ home_goals = 0
    /\ away_goals = 0
    /\ events = << >>
    /\ goal_no = 0
    /\ minute = 0
    /\ scorer = 0
    /\ last = Menu

\* the outcome is printed and main() is back at a prompt
MainMenu ==
    /\ pc = "idle"
    /\ last.op # "menu"
    /\ last' = Menu
    /\ UNCHANGED <<repo, pc, locals>>

MatchStep ==
    \/ HomeGoal
    \/ HomeAssist
    \/ HomeDone
    \/ AwayGoal
    \/ AwayAssist
    \/ FinishMatch

Next ==
    \/ \E player_name \in PlayerInputs, new_team \in TeamInputs :
          TransferPlayer(player_name, new_team)
    \/ \E i \in 1..Len(players) : CalculatePlayerValue(i)
    \/ \E home_in \in TeamInputs, away_in \in TeamInputs :
          SimulateMatch(home_in, away_in)
    \/ MatchStep
    \/ \E player_name \in PlayerInputs : CalculatePlayerEfficiency(player_name)
    \/ \E team_name \in TeamInputs : GenerateTeamReport(team_name)
    \/ MainMenu

Spec == Init /\ [][Next]_vars

\* a call that has started keeps running: the session has one thread
FairSpec == Init /\ [][Next]_vars /\ WF_vars(MatchStep)

----------------------------------------------------------------------------
(* Vocabulary of the properties *)

\* no two player records carry the same name
UniqueNames ==
    \A i, j \in DOMAIN players : players[i].name = players[j].name => i = j

OnTeam(player_name, team_name) ==
    \E i \in DOMAIN players :
       players[i].name = player_name /\ players[i].team = team_name

HistoryEvents ==
    UNION { Range(match_history[m].events) : m \in DOMAIN match_history }

TeamNames == { teams[t].name : t \in DOMAIN teams }

KnownPlayer(player_name) ==
    \E i \in DOMAIN players : lower(players[i].name) = lower(player_name)

KnownTeam(team_name) ==
    \E t \in DOMAIN teams : lower(teams[t].name) = lower(team_name)

\* the stored name of the first team that team_name matches
Canonical(team_name) ==
    teams[CHOOSE t \in DOMAIN teams :
             /\ lower(teams[t].name) = lower(team_name)
             /\ \A u \in 1..(t - 1) : lower(teams[u].name) # lower(team_name)].name

StatsChanged == \E i \in DOMAIN players : players'[i].stats # players[i].stats

\* the step that sorts the events, appends the result and updates the stats
Commits == pc = "away_goals" /\ pc' = "idle"

Times(evs, field, player_name) ==
    Cardinality({ k \in DOMAIN evs : evs[k][field] = player_name })

FirstOfName(i) == \A j \in 1..(i - 1) : players[j].name # players[i].name

\* floor(num/den) for den > 0
Floor(num, den) == num \div den

----------------------------------------------------------------------------
(* C1 *)

DistinctOnSide(e) ==
    /\ e.scorer # e.assist
    /\ OnTeam(e.scorer, e.team)
    /\ OnTeam(e.assist, e.team)

EventsWellAttributed ==
    /\ \A k \in DOMAIN events : DistinctOnSide(events[k])
    /\ \A e \in HistoryEvents : e.scorer # e.assist

\* C1 as stated: every goal event, generated or stored in match_history,
\* names a scorer and an assist that are different names, both of players
\* whose team is the event's team when the event is generated, whatever the
\* roster holds.
C1_AnyRoster == EventsWellAttributed

\* C1 amended: when the player names of the repository are pairwise
\* distinct, every goal event, generated or stored in match_history, names a
\* scorer and an assist that are different names, both of players whose team
\* is the event's team when the event is generated.
C1_DistinctScorerAssist == UniqueNames => EventsWellAttributed

C1_Witness ==
    /\ UniqueNames
    /\ \E m \in DOMAIN match_history : Len(match_history[m].events) >= 2

----------------------------------------------------------------------------
(* C2 *)

\* C2: a simulate_match call that has started always comes to an end, also
\* when a side with a goal to attribute has fewer than two players (it then
\* fails after a bounded number of assist draws).
C2_Terminates == (pc # "idle") ~> (pc = "idle")

----------------------------------------------------------------------------
(* C3 *)

\* C3: transfer_player fails with NotFound exactly when the player name or
\* the team name matches no record case-insensitively, and a failing call
\* changes no player, no team and no history, whichever lookup missed.
C3_TransferAtomic ==
    [][ last'.op = "transfer_player" =>
          LET missed == \/ ~ KnownPlayer(last'.args.player_name)
                        \/ ~ KnownTeam(last'.args.new_team)
          IN  /\ missed <=> last'.status = "NotFound"
              /\ missed => UNCHANGED repo ]_vars

C3_Witness ==
    /\ last.op = "transfer_player"
    /\ last.status = "NotFound"
    /\ KnownPlayer(last.args.player_name)
    /\ ~ KnownTeam(last.args.new_team)

----------------------------------------------------------------------------
(* C4 *)

\* C4: after a successful transfer the record's to_team and the player's
\* team are the stored name of the matched team, so every player's team
\* stays the exact name of an existing team.
C4_CanonicalTeam ==
    /\ \A i \in DOMAIN players : players[i].team \in TeamNames
    /\ (last.op = "transfer_player" /\ last.status = "ok") =>
           last.value.to_team = Canonical(last.args.new_team)

----------------------------------------------------------------------------
(* C5 *)

RosterSum(ps, field) ==
    LET side == Range(Roster(players, home_team))
                \cup Range(Roster(players, away_team))
        F(i) == ps[i].stats[field]
    IN  Sum([k \in 1..Len(players) |-> IF k \in side THEN F(k) ELSE 0])

TotalSum(ps, field) == Sum([k \in 1..Len(ps) |-> ps[k].stats[field]])

OnlyGoalsAndAssists ==
    /\ Len(players') = Len(players)
    /\ \A i \in DOMAIN players :
          players'[i] = [players[i] EXCEPT
                            !.stats.goals = players'[i].stats.goals,
                            !.stats.assists = players'[i].stats.assists]

\* every event adds one goal to the record its scorer names and one assist
\* to the record its assist names (the first record of that name)
PerEvent ==
    \A i \in DOMAIN players :
       /\ players'[i].stats.goals = players[i].stats.goals
             + (IF FirstOfName(i)
                THEN Times(events, "scorer", players[i].name) ELSE 0)
       /\ players'[i].stats.assists = players[i].stats.assists
             + (IF FirstOfName(i)
                THEN Times(events, "assist", players[i].name) ELSE 0)

\* C5 as stated: update_stats adds k+m to the goals and k+m to the assists
\* of the two participating rosters, one goal to the player named as scorer
\* and one assist to the player named as assister per event, and changes
\* nothing else.
C5_RosterSums ==
    [][ Commits =>
          /\ RosterSum(players', "goals")
                = RosterSum(players, "goals") + home_goals + away_goals
          /\ RosterSum(players', "assists")
                = RosterSum(players, "assists") + home_goals + away_goals
          /\ PerEvent
          /\ OnlyGoalsAndAssists ]_vars

\* C5 amended: update_stats adds k+m to the sum of the goals and k+m to the
\* sum of the assists over all players of the repository; each event adds
\* one goal to the first record bearing the scorer's name and one assist to
\* the first record bearing the assister's name; nothing else changes; and
\* when the player names are pairwise distinct these are the sums over the
\* two participating rosters.
C5_TotalSums ==
    [][ Commits =>
          /\ TotalSum(players', "goals")
                = TotalSum(players, "goals") + home_goals + away_goals
          /\ TotalSum(players', "assists")
                = TotalSum(players, "assists") + home_goals + away_goals
          /\ PerEvent
          /\ OnlyGoalsAndAssists
          /\ UniqueNames =>
                /\ RosterSum(players', "goals")
                      = RosterSum(players, "goals") + home_goals + away_goals
                /\ RosterSum(players', "assists")
                      = RosterSum(players, "assists") + home_goals + away_goals
      ]_vars

C5_Witness ==
    /\ last.op = "simulate_match"
    /\ last.status = "ok"
    /\ last.value.home_goals >= 1
    /\ last.value.away_goals >= 1
    /\ TotalSum(players, "goals") = 2
    /\ TotalSum(players, "assists") = 2

----------------------------------------------------------------------------
(* C6 *)

Failed(outcome) == outcome.status \notin { "ok", "running" }

\* C6: a simulate_match call on an unknown team or on a team without
\* players fails and leaves players, teams and both histories as they were;
\* statistics change and match_history grows only in the step that follows
\* the complete generation of the events of both sides.
C6_FailedMatchUntouched ==
    [][ /\ (last'.op = "simulate_match" /\ Failed(last')) => UNCHANGED repo
        /\ (last.op = "menu" /\ last'.op = "simulate_match") =>
              LET h == last'.args.home_team
                  a == last'.args.away_team
              IN  ( \/ ~ KnownTeam(h)
                    \/ ~ KnownTeam(a)
                    \/ Roster(players, Canonical(h)) = << >>
                    \/ Roster(players, Canonical(a)) = << >> )
                  => Failed(last')
        /\ (StatsChanged \/ match_history' # match_history) =>
              /\ Commits
              /\ goal_no = away_goals
              /\ Len(events) = home_goals + away_goals
              /\ last'.status = "ok" ]_vars

C6_Witness ==
    /\ last.op = "simulate_match"
    /\ last.status = "NoPlayers"
    /\ KnownTeam(last.args.home_team)
    /\ KnownTeam(last.args.away_team)
    /\ \E i \in DOMAIN players : players[i].stats.goals > 0

----------------------------------------------------------------------------
(* C7 *)

\* the events of minute m, m+1, ... in the order they were generated
RECURSIVE ByMinuteFrom(_, _)
ByMinuteFrom(evs, m) ==
    IF m > MaxMinute THEN << >>
    ELSE LET AtM(e) == e.minute = m
         IN  SelectSeq(evs, AtM) \o ByMinuteFrom(evs, m + 1)

----------------------------------------------------------------------------
(* C8 *)

ReadOnlyOps ==
    { "calculate_player_value", "calculate_player_efficiency",
      "generate_team_report" }

\* C8: statistics never decrease and change only in the update step of
\* simulate_match; transfer_player changes only the team of one player and
\* transfer_history; the valuation, the strength computation, the efficiency
\* metrics and the team report change nothing.
C8_Frame ==
    [][ /\ Len(players') = Len(players)
        /\ \A i \in DOMAIN players :
              /\ players'[i].stats.goals >= players[i].stats.goals
              /\ players'[i].stats.assists >= players[i].stats.assists
        /\ StatsChanged =>
              Commits /\ last'.op = "simulate_match" /\ last'.status = "ok"
        /\ last'.op = "transfer_player" =>
              /\ teams' = teams
              /\ match_history' = match_history
              /\ \/ transfer_history' = transfer_history
                 \/ transfer_history' = Append(transfer_history, last'.value)
              /\ \E i \in DOMAIN players :
                    /\ players'[i] =
                          [players[i] EXCEPT !.team = players'[i].team]
                    /\ \A j \in DOMAIN players \ {i} : players'[j] = players[j]
        /\ last'.op \in ReadOnlyOps => UNCHANGED repo
        /\ (last.op = "menu" /\ last'.op = "simulate_match") => UNCHANGED repo
      ]_vars

C8_Witness ==
    /\ last.op = "generate_team_report"
    /\ last.status = "ok"
    /\ transfer_history # << >>
    /\ \E i \in DOMAIN players : players[i].stats.goals > 0

----------------------------------------------------------------------------
(* C9 *)

FirstMax(roster, field) ==
    CHOOSE k \in DOMAIN roster :
       /\ \A j \in DOMAIN roster :
             players[roster[j]].stats[field] <= players[roster[k]].stats[field]
       /\ \A j \in 1..(k - 1) :
             players[roster[j]].stats[field] < players[roster[k]].stats[field]

\* C9: the report of an existing team without players fails with
\* EmptyRoster; the report of a team with players names as top scorer and
\* top assister the first player of the roster holding the maximum.
C9_EmptyRosterGuard ==
    (last.op = "generate_team_report" /\ KnownTeam(last.args)) =>
        LET roster == Roster(players, Canonical(last.args))
        IN  IF roster = << >>
            THEN last.status = "EmptyRoster"
            ELSE /\ last.status = "ok"
                 /\ last.value.top_scorer
                       = players[roster[FirstMax(roster, "goals")]]
                 /\ last.value.top_assister
                       = players[roster[FirstMax(roster, "assists")]]

----------------------------------------------------------------------------
(* C10 *)

\* C10: calculate_player_value returns the floor of the valuation sum, and
\* the fee of a transfer is that value for the transferred player.
C10_FloorValue ==
    /\ last.op = "calculate_player_value" =>
          last.value = Floor(ValueNinths(last.args), 9)
    /\ (last.op = "transfer_player" /\ last.status = "ok") =>
          last.value.fee =
             Floor(ValueNinths(players[FindPlayerCI(players,
                                                    last.args.player_name)]), 9)

====
